---- MODULE Spec2Model ----
(***************************************************************************)
(* The public developer API of gPodder (src/gpodder/api.py): the Podcast   *)
(* and Episode projections and the module-level functions get_podcasts,    *)
(* get_podcast, create_podcast, synchronize_device and finish, over the    *)
(* collaborators they delegate to (PodcastChannel, db, opml.Exporter,      *)
(* download.DownloadTask, util.normalize_feed_url).                        *)
(***************************************************************************)
EXTENDS Naturals, Sequences, FiniteSets

\* ------------------------------------------------------------- bounds
\* Number of subscriptions the store ever creates (channel ids 1..MaxId).
MaxId == 2
\* Number of Podcast projections the calling script keeps references to.
MaxHeld == 1
\* Number of episodes a feed delivers at most.
MaxEps == 1

\* ------------------------------------------------------------- values
\* Python's None, as a url, a title or a function result.
None == "None"

\* Feed URLs as a caller writes them, and the normalized ones among them.
Urls == {"feed://a", "http://a", "http://b", "http://bad"}
NormUrls == {"http://a", "http://b", "http://bad"}
\* The feeds that can be fetched and parsed; creating a subscription for
\* another url fails.
Fetchable(url) == url # "http://bad"
\* The store's natural return order.
UrlOrder == <<"http://a", "http://b", "http://bad">>

\* Titles as a caller writes them; " X" is "X" with surrounding whitespace.
Titles == {"X", " X"}

STATE_NORMAL == "STATE_NORMAL"
STATE_DOWNLOADED == "STATE_DOWNLOADED"
STATE_DELETED == "STATE_DELETED"
VARIABLES
    store,              \* db: normalized url -> channel row (id 0: no row)
    files,              \* downloaded episode content on disk: <<channel id, index>>
    pending,            \* the store holds changes that are not committed
    subscription_file,  \* the OPML file: the channels last written
    nextId,             \* the id the store gives the next new channel
    podcasts,           \* the Podcast projections the script holds
    episodes,           \* the Episode projections the script holds
    op,                 \* the last API call: its name, receiver and arguments
    ret,                \* what it returned
    log                 \* the collaborator calls it made, in order

vars == <<store, files, pending, subscription_file, nextId, podcasts,
          episodes, op, ret, log>>

\* ------------------------------------------------- collaborators: store
NoRow == [id |-> 0, title |-> "", episodes |-> <<>>]
\* A channel entity in memory; url None: no entity.
NoEntity == [id |-> 0, url |-> None, title |-> ""]

\* The title a feed advertises for itself.
FeedTitle(url) == "F"

\* A feed's episodes as a new subscription first sees them.
NewEpisode == [state |-> STATE_NORMAL, is_played |-> FALSE]

\* util.normalize_feed_url: feed:// becomes http://.
normalize_feed_url(url) == IF url = "feed://a" THEN "http://a" ELSE url

\* PodcastChannel.set_custom_title: the title is stripped of whitespace.
StripTitle(title) == IF title = " X" THEN "X" ELSE title
set_custom_title(ent, title) == [ent EXCEPT !.title = StripTitle(title)]

RECURSIVE SelectRows(_, _)
SelectRows(st, order) ==
    IF order = <<>> THEN <<>>
    ELSE LET u == Head(order)
             rest == SelectRows(st, Tail(order))
         IN IF st[u].id # 0
            THEN <<[id |-> st[u].id, url |-> u, title |-> st[u].title]>> \o rest
            ELSE rest

\* PodcastChannel.load_from_db: every subscribed channel, in store order.
load_from_db(st) == SelectRows(st, UrlOrder)

\* PodcastChannel.load: the channel of a url; with create, a new channel
\* (not yet saved, id 0) when the feed can be fetched.
load(st, url, create) ==
    IF st[url].id # 0
    THEN [id |-> st[url].id, url |-> url, title |-> st[url].title]
    ELSE IF create /\ Fetchable(url)
         THEN [id |-> 0, url |-> url, title |-> FeedTitle(url)]
         ELSE NoEntity

\* PodcastChannel.save: a new channel gets a row and the next id; a known
\* one updates the row that has its id, if there still is one.
save(st, nid, ent) ==
    IF ent.id = 0
    THEN [st EXCEPT ![ent.url] =
            [id |-> nid, title |-> ent.title, episodes |-> <<NewEpisode>>]]
    ELSE [u \in NormUrls |->
            IF st[u].id = ent.id THEN [st[u] EXCEPT !.title = ent.title]
            ELSE st[u]]

\* The entity as save leaves it: a new one now has its id.
saved(nid, ent) == IF ent.id = 0 THEN [ent EXCEPT !.id = nid] ELSE ent

\* The id the store gives next, after saving ent.
idAfter(nid, ent) == IF ent.id = 0 THEN nid + 1 ELSE nid

\* ------------------------------------------------------------ Podcast
\* Podcast.__init__; _podcast is the wrapped channel (its id), 0 for None.
Podcast(ent) == [_podcast |-> ent.id, title |-> ent.title, url |-> ent.url]
\* A slot of the script that holds no projection.
NoPodcast == [_podcast |-> 0, title |-> "", url |-> None]

Wrap(ents) == [i \in 1..Len(ents) |-> Podcast(ents[i])]

\* What a call returns.
Returned(kind, val) == [kind |-> kind, val |-> val]
RetNone == Returned("None", <<>>)
RetTrue == Returned("True", <<>>)
RetRaised == Returned("raised", <<>>)

\* get_podcasts()
get_podcasts(st) ==
    [ret |-> Returned("list", Wrap(load_from_db(st))),
     log |-> <<"load_from_db">>]

\* get_podcast as it would be with create=True passed to load.
get_podcast_creating(st, url) ==
    LET u == normalize_feed_url(url)
        channel == load(st, u, TRUE)
    IN [store |-> IF channel.url = None THEN st ELSE save(st, nextId, channel),
        ret |-> IF channel.url = None THEN RetNone
                ELSE Returned("Podcast", <<Podcast(channel)>>),
        log |-> <<"normalize_feed_url", "load">>]

\* get_podcast(url)
get_podcast(st, url) ==
    LET u == normalize_feed_url(url)
        channel == load(st, u, FALSE)
    IN [store |-> st,
        ret |-> IF channel.url = None THEN RetNone
                ELSE Returned("Podcast", <<Podcast(channel)>>),
        log |-> <<"normalize_feed_url", "load">>]

\* create_podcast as it would be with save called before set_custom_title.
create_podcast_late_title(st, nid, url, title) ==
    LET u == normalize_feed_url(url)
        podcast == load(st, u, TRUE)
    IN IF podcast.url # None
       THEN LET titled == IF title # None
                          THEN set_custom_title(saved(nid, podcast), title)
                          ELSE saved(nid, podcast)
            IN [store |-> save(st, nid, podcast),
                nextId |-> idAfter(nid, podcast),
                ret |-> Returned("Podcast", <<Podcast(titled)>>),
                log |-> <<"normalize_feed_url", "load", "save">>
                        \o (IF title # None THEN <<"set_custom_title">> ELSE <<>>)]
       ELSE [store |-> st, nextId |-> nid, ret |-> RetNone,
             log |-> <<"normalize_feed_url", "load">>]

\* create_podcast as it would be without the test for None.
create_podcast_unchecked(st, nid, url, title) ==
    LET u == normalize_feed_url(url)
        podcast == load(st, u, TRUE)
    IN IF podcast.url = None
       THEN [store |-> st, nextId |-> nid, ret |-> RetRaised,
             log |-> <<"normalize_feed_url", "load">>]
       ELSE LET titled == IF title # None
                          THEN set_custom_title(podcast, title)
                          ELSE podcast
            IN [store |-> save(st, nid, titled),
                nextId |-> idAfter(nid, titled),
                ret |-> Returned("Podcast", <<Podcast(saved(nid, titled))>>),
                log |-> <<"normalize_feed_url", "load">>
                        \o (IF title # None THEN <<"set_custom_title">> ELSE <<>>)
                        \o <<"save">>]

\* create_podcast(url, title=None)
create_podcast(st, nid, url, title) ==
    LET u == normalize_feed_url(url)
        podcast == load(st, u, TRUE)
    IN IF podcast.url # None
       THEN LET titled == IF title # None
                          THEN set_custom_title(podcast, title)
                          ELSE podcast
            IN [store |-> save(st, nid, titled),
                nextId |-> idAfter(nid, titled),
                ret |-> Returned("Podcast", <<Podcast(saved(nid, titled))>>),
                log |-> <<"normalize_feed_url", "load">>
                        \o (IF title # None THEN <<"set_custom_title">> ELSE <<>>)
                        \o <<"save">>]
       ELSE [store |-> st, nextId |-> nid, ret |-> RetNone,
             log |-> <<"normalize_feed_url", "load">>]

\* The channel object a projection wraps.
Channel(self) == [id |-> self._podcast, url |-> self.url, title |-> self.title]

\* What a method called on a projection whose _podcast is None does: the
\* attribute access raises before anything else happens.
Raises(st, fl, self) ==
    [store |-> st, files |-> fl, self |-> self, ret |-> RetRaised, log |-> <<>>]

\* rename as it would be without the call of save.
rename_unsaved(st, nid, self, title) ==
    IF self._podcast = 0 THEN Raises(st, {}, self)
    ELSE LET titled == set_custom_title(Channel(self), title)
             refreshed == [self EXCEPT !.title = titled.title]
         IN [store |-> st, files |-> {}, self |-> refreshed,
             ret |-> RetNone, log |-> <<"set_custom_title", "title">>]

\* rename as it would be with the title read before set_custom_title.
rename_stale(st, nid, self, title) ==
    IF self._podcast = 0 THEN Raises(st, {}, self)
    ELSE LET titled == set_custom_title(Channel(self), title)
         IN [store |-> save(st, nid, titled), files |-> {}, self |-> self,
             ret |-> RetNone, log |-> <<"title", "set_custom_title", "save">>]

\* Podcast.rename(title)
rename(st, nid, self, title) ==
    IF self._podcast = 0 THEN Raises(st, {}, self)
    ELSE LET titled == set_custom_title(Channel(self), title)
             refreshed == [self EXCEPT !.title = titled.title]
         IN [store |-> save(st, nid, titled), files |-> {}, self |-> refreshed,
             ret |-> RetNone, log |-> <<"set_custom_title", "title", "save">>]

\* PodcastChannel.remove_downloaded: the downloaded episodes the store has
\* for the channel lose their files and become deleted episodes.
remove_downloaded(st, fl, id) ==
    [store |-> [u \in NormUrls |->
                  IF st[u].id = id
                  THEN [st[u] EXCEPT !.episodes =
                          [i \in 1..Len(st[u].episodes) |->
                              IF st[u].episodes[i].state = STATE_DOWNLOADED
                              THEN [st[u].episodes[i] EXCEPT !.state = STATE_DELETED]
                              ELSE st[u].episodes[i]]]
                  ELSE st[u]],
     files |-> fl \ {f \in fl : \E u \in NormUrls :
                        /\ st[u].id = id /\ f[1] = id
                        /\ f[2] \in 1..Len(st[u].episodes)
                        /\ st[u].episodes[f[2]].state = STATE_DOWNLOADED}]

\* PodcastChannel.delete: the channel's row (and its episodes) leave the store.
delete_channel(st, id) ==
    [u \in NormUrls |-> IF st[u].id = id THEN NoRow ELSE st[u]]

\* delete as it would be with the channel deleted before its downloads.
delete_subscription_first(st, fl, self) ==
    IF self._podcast = 0 THEN Raises(st, fl, self)
    ELSE LET removed == remove_downloaded(delete_channel(st, self._podcast), fl,
                                          self._podcast)
         IN [store |-> removed.store,
             files |-> removed.files,
             self |-> [self EXCEPT !._podcast = 0],
             ret |-> RetNone, log |-> <<"delete", "remove_downloaded">>]

\* delete as it would be without clearing _podcast.
delete_keeping_reference(st, fl, self) ==
    IF self._podcast = 0 THEN Raises(st, fl, self)
    ELSE LET removed == remove_downloaded(st, fl, self._podcast)
         IN [store |-> delete_channel(removed.store, self._podcast),
             files |-> removed.files,
             self |-> self,
             ret |-> RetNone, log |-> <<"remove_downloaded", "delete">>]

\* Podcast.delete()
delete(st, fl, self) ==
    IF self._podcast = 0 THEN Raises(st, fl, self)
    ELSE LET removed == remove_downloaded(st, fl, self._podcast)
         IN [store |-> delete_channel(removed.store, self._podcast),
             files |-> removed.files,
             self |-> [self EXCEPT !._podcast = 0],
             ret |-> RetNone, log |-> <<"remove_downloaded", "delete">>]

\* PodcastChannel.update(max_episodes): fresh says the feed has a new
\* episode, which is merged while the channel has fewer than max_episodes.
update_channel(st, id, fresh) ==
    [u \in NormUrls |->
        IF st[u].id = id /\ fresh /\ Len(st[u].episodes) < MaxEps
        THEN [st[u] EXCEPT !.episodes = Append(@, NewEpisode)]
        ELSE st[u]]

\* Podcast.update()
update(st, self, fresh) ==
    IF self._podcast = 0 THEN Raises(st, {}, self)
    ELSE [store |-> update_channel(st, self._podcast, fresh), files |-> {},
          self |-> self, ret |-> RetNone, log |-> <<"update">>]

\* ------------------------------------------------------------ Episode
EpisodeTitle(i) == IF i = 1 THEN "e1" ELSE "e+"
EpisodeUrl(url, i) == url

RECURSIVE RowEpisodes(_, _, _, _)
RowEpisodes(id, url, eps, i) ==
    IF i > Len(eps) THEN <<>>
    ELSE <<[channel |-> id, index |-> i, title |-> EpisodeTitle(i),
            url |-> EpisodeUrl(url, i), state |-> eps[i].state,
            is_played |-> eps[i].is_played]>> \o RowEpisodes(id, url, eps, i + 1)

\* PodcastChannel.get_all_episodes: the episodes the store has now for the
\* channel.
get_all_episodes(st, id) ==
    IF \E u \in NormUrls : st[u].id = id
    THEN LET u == CHOOSE u \in NormUrls : st[u].id = id
         IN RowEpisodes(id, u, st[u].episodes, 1)
    ELSE <<>>

\* Episode.__init__ as it would be with is_new taken from is_played alone.
Episode_played_only(e) ==
    [_episode |-> <<e.channel, e.index>>,
     title |-> e.title,
     url |-> e.url,
     is_new |-> ~e.is_played,
     is_downloaded |-> (e.state = STATE_DOWNLOADED),
     is_deleted |-> (e.state = STATE_DELETED)]

\* Episode.__init__
Episode(e) ==
    [_episode |-> <<e.channel, e.index>>,
     title |-> e.title,
     url |-> e.url,
     is_new |-> (e.state = STATE_NORMAL /\ ~e.is_played),
     is_downloaded |-> (e.state = STATE_DOWNLOADED),
     is_deleted |-> (e.state = STATE_DELETED)]
NoEpisode ==
    [_episode |-> <<0, 0>>, title |-> "", url |-> None, is_new |-> FALSE,
     is_downloaded |-> FALSE, is_deleted |-> FALSE]

\* Podcast.get_episodes()
get_episodes(st, self) ==
    IF self._podcast = 0 THEN Raises(st, {}, self)
    ELSE LET es == get_all_episodes(st, self._podcast)
         IN [store |-> st, files |-> {}, self |-> self,
             ret |-> Returned("list", [i \in 1..Len(es) |-> Episode(es[i])]),
             log |-> <<"get_all_episodes">>]

\* DownloadTask.run: when the download succeeds (ok) and the store still
\* has the episode, its file is on disk and its state is downloaded.
run(st, fl, ref, ok) ==
    LET there == \E u \in NormUrls :
                    st[u].id = ref[1] /\ ref[2] \in 1..Len(st[u].episodes)
    IN IF ok /\ there
       THEN [store |-> [u \in NormUrls |->
                          IF st[u].id = ref[1]
                          THEN [st[u] EXCEPT !.episodes[ref[2]].state = STATE_DOWNLOADED]
                          ELSE st[u]],
             files |-> fl \cup {ref}]
       ELSE [store |-> st, files |-> fl]

\* download as it would be if it refreshed the projection afterwards.
download_refreshing(st, fl, self, ok) ==
    LET ran == run(st, fl, self._episode, ok)
        now == get_all_episodes(ran.store, self._episode[1])
    IN [store |-> ran.store, files |-> ran.files,
        self |-> IF self._episode[2] \in 1..Len(now)
                 THEN Episode(now[self._episode[2]]) ELSE self,
        ret |-> RetNone,
        log |-> <<"DownloadTask", "QUEUED", "run">>]

\* Episode.download()
download(st, fl, self, ok) ==
    LET ran == run(st, fl, self._episode, ok)
    IN [store |-> ran.store, files |-> ran.files, self |-> self, ret |-> RetNone,
        log |-> <<"DownloadTask", "QUEUED", "run">>]

\* ------------------------------------------------------------- module
\* opml.Exporter.write: one outline per channel, with its title and url.
write(channels) ==
    [i \in 1..Len(channels) |-> [title |-> channels[i].title, url |-> channels[i].url]]

\* finish as it would be without the export.
finish_unwritten(st) ==
    [subscription_file |-> subscription_file, pending |-> FALSE, ret |-> RetTrue,
     log |-> <<"load_from_db", "commit">>]

\* finish()
finish(st) ==
    LET channels == load_from_db(st)
    IN [subscription_file |-> write(channels), pending |-> FALSE, ret |-> RetTrue,
        log |-> <<"load_from_db", "Exporter", "write", "commit">>]

\* --------------------------------------------------------------- state
Call(name, self, url, title) ==
    [name |-> name, self |-> self, url |-> url, title |-> title]

Init ==
    /\ store = [u \in NormUrls |-> NoRow]
    /\ files = {}
    /\ pending = FALSE
    /\ subscription_file = <<>>
    /\ nextId = 1
    /\ podcasts = [i \in 1..MaxHeld |-> NoPodcast]
    /\ episodes = [i \in 1..MaxHeld |-> NoEpisode]
    /\ op = Call("import", 0, None, None)
    /\ ret = RetNone
    /\ log = <<>>

\* The script keeps the projection a call returned (the k-th), or drops it.
Keep(held, slot, val, k) ==
    IF k = 0 THEN held ELSE [held EXCEPT ![slot] = val[k]]

GetPodcasts ==
    LET r == get_podcasts(store)
    IN \E slot \in 1..MaxHeld, k \in 0..Len(r.ret.val) :
        /\ podcasts' = Keep(podcasts, slot, r.ret.val, k)
        /\ op' = Call("get_podcasts", 0, None, None)
        /\ ret' = r.ret
        /\ log' = r.log
        /\ UNCHANGED <<store, files, pending, subscription_file, nextId, episodes>>

GetPodcast ==
    \E url \in Urls, slot \in 1..MaxHeld :
        LET r == get_podcast(store, url)
        IN /\ \E k \in 0..Len(r.ret.val) :
                podcasts' = Keep(podcasts, slot, r.ret.val, k)
           /\ store' = r.store
           /\ op' = Call("get_podcast", 0, url, None)
           /\ ret' = r.ret
           /\ log' = r.log
           /\ UNCHANGED <<files, pending, subscription_file, nextId, episodes>>

CreatePodcast ==
    \E url \in Urls, title \in Titles \cup {None}, slot \in 1..MaxHeld :
        LET r == create_podcast(store, nextId, url, title)
        IN /\ r.nextId <= MaxId + 1
           /\ \E k \in 0..Len(r.ret.val) :
                podcasts' = Keep(podcasts, slot, r.ret.val, k)
           /\ store' = r.store
           /\ nextId' = r.nextId
           /\ pending' = (pending \/ r.ret.kind = "Podcast")
           /\ op' = Call("create_podcast", 0, url, title)
           /\ ret' = r.ret
           /\ log' = r.log
           /\ UNCHANGED <<files, subscription_file, episodes>>

\* A projection the script holds.
Held(slot) == podcasts[slot].url # None

PodcastRename ==
    \E slot \in 1..MaxHeld, title \in Titles :
        /\ Held(slot)
        /\ LET r == rename(store, nextId, podcasts[slot], title)
           IN /\ store' = r.store
              /\ podcasts' = [podcasts EXCEPT ![slot] = r.self]
              /\ pending' = (pending \/ r.ret.kind = "None")
              /\ op' = Call("rename", slot, None, title)
              /\ ret' = r.ret
              /\ log' = r.log
        /\ UNCHANGED <<files, subscription_file, nextId, episodes>>

PodcastDelete ==
    \E slot \in 1..MaxHeld :
        /\ Held(slot)
        /\ LET r == delete(store, files, podcasts[slot])
           IN /\ store' = r.store
              /\ files' = r.files
              /\ podcasts' = [podcasts EXCEPT ![slot] = r.self]
              /\ pending' = (pending \/ r.ret.kind = "None")
              /\ op' = Call("delete", slot, None, None)
              /\ ret' = r.ret
              /\ log' = r.log
        /\ UNCHANGED <<subscription_file, nextId, episodes>>

PodcastUpdate ==
    \E slot \in 1..MaxHeld, fresh \in BOOLEAN :
        /\ Held(slot)
        /\ LET r == update(store, podcasts[slot], fresh)
           IN /\ store' = r.store
              /\ podcasts' = [podcasts EXCEPT ![slot] = r.self]
              /\ pending' = (pending \/ r.ret.kind = "None")
              /\ op' = Call("update", slot, None, None)
              /\ ret' = r.ret
              /\ log' = r.log
        /\ UNCHANGED <<files, subscription_file, nextId, episodes>>

PodcastGetEpisodes ==
    \E slot \in 1..MaxHeld, eslot \in 1..MaxHeld :
        /\ Held(slot)
        /\ LET r == get_episodes(store, podcasts[slot])
           IN /\ \E k \in 0..Len(r.ret.val) :
                    episodes' = Keep(episodes, eslot, r.ret.val, k)
              /\ podcasts' = [podcasts EXCEPT ![slot] = r.self]
              /\ op' = Call("get_episodes", slot, None, None)
              /\ ret' = r.ret
              /\ log' = r.log
        /\ UNCHANGED <<store, files, pending, subscription_file, nextId>>

EpisodeDownload ==
    \E eslot \in 1..MaxHeld, ok \in BOOLEAN :
        /\ episodes[eslot].url # None
        /\ LET r == download(store, files, episodes[eslot], ok)
           IN /\ store' = r.store
              /\ files' = r.files
              /\ episodes' = [episodes EXCEPT ![eslot] = r.self]
              /\ pending' = TRUE
              /\ op' = Call("download", eslot, None, None)
              /\ ret' = r.ret
              /\ log' = r.log
        /\ UNCHANGED <<subscription_file, nextId, podcasts>>

SynchronizeDevice ==
    /\ op' = Call("synchronize_device", 0, None, None)
    /\ ret' = RetNone
    /\ log' = <<"synchronize_device">>
    /\ UNCHANGED <<store, files, pending, subscription_file, nextId, podcasts,
                   episodes>>

Finish ==
    LET r == finish(store)
    IN /\ subscription_file' = r.subscription_file
       /\ pending' = r.pending
       /\ op' = Call("finish", 0, None, None)
       /\ ret' = r.ret
       /\ log' = r.log
       /\ UNCHANGED <<store, files, nextId, podcasts, episodes>>

\* The application marks an episode played (outside this API; recorded as
\* the last thing that happened).
MarkPlayed ==
    \E u \in NormUrls, i \in 1..MaxEps :
        /\ store[u].id # 0
        /\ i <= Len(store[u].episodes)
        /\ ~store[u].episodes[i].is_played
        /\ store' = [store EXCEPT ![u].episodes[i].is_played = TRUE]
        /\ pending' = TRUE
        /\ op' = Call("application", 0, None, None)
        /\ ret' = RetNone
        /\ log' = <<>>
        /\ UNCHANGED <<files, subscription_file, nextId, podcasts, episodes>>

\* The application deletes a downloaded episode's file (outside this API).
DeleteFromDisk ==
    \E u \in NormUrls, i \in 1..MaxEps :
        /\ store[u].id # 0
        /\ i <= Len(store[u].episodes)
        /\ store[u].episodes[i].state = STATE_DOWNLOADED
        /\ store' = [store EXCEPT ![u].episodes[i].state = STATE_DELETED]
        /\ files' = files \ {<<store[u].id, i>>}
        /\ pending' = TRUE
        /\ op' = Call("application", 0, None, None)
        /\ ret' = RetNone
        /\ log' = <<>>
        /\ UNCHANGED <<subscription_file, nextId, podcasts, episodes>>

Next ==
    \/ GetPodcasts
    \/ GetPodcast
    \/ CreatePodcast
    \/ PodcastRename
    \/ PodcastDelete
    \/ PodcastUpdate
    \/ PodcastGetEpisodes
    \/ EpisodeDownload
    \/ SynchronizeDevice
    \/ Finish

Spec == Init /\ [][Next]_vars

\* The episodes of one subscription the store already has when the module
\* is imported, under the API's episode operations and the application's
\* own changes of the episodes.
InitEpisode ==
    /\ store = [u \in NormUrls |->
                  IF u = UrlOrder[1]
                  THEN [id |-> 1, title |-> FeedTitle(u), episodes |-> <<>>]
                  ELSE IF u = UrlOrder[2]
                  THEN [id |-> 2, title |-> FeedTitle(u), episodes |-> <<NewEpisode>>]
                  ELSE NoRow]
    /\ files = {}
    /\ pending = FALSE
    /\ subscription_file = <<>>
    /\ nextId = 3
    /\ podcasts = [i \in 1..MaxHeld |-> NoPodcast]
    /\ episodes = [i \in 1..MaxHeld |-> NoEpisode]
    /\ op = Call("import", 0, None, None)
    /\ ret = RetNone
    /\ log = <<>>

NextEpisode ==
    \/ GetPodcast
    \/ PodcastGetEpisodes
    \/ PodcastUpdate
    \/ PodcastDelete
    \/ EpisodeDownload
    \/ MarkPlayed
    \/ DeleteFromDisk

SpecEpisode == InitEpisode /\ [][NextEpisode]_vars

\* ------------------------------------------------------------- claims
Methods == {"get_episodes", "rename", "update", "delete"}

\* Call a comes before call b in the trace l.
Before(l, a, b) ==
    \E i, j \in 1..Len(l) : i < j /\ l[i] = a /\ l[j] = b

Called(l, a) == \E i \in 1..Len(l) : l[i] = a

Subscribed(st) == {u \in NormUrls : st[u].id # 0}

\* C1: get_podcast(url) for a URL whose normalized form has no subscription
\* returns None without raising, and no get_podcast call changes the
\* store: no subscription is created, whatever the store and the URL.
C1_GetPodcastUnknown ==
    [][op'.name = "get_podcast" =>
        /\ store' = store
        /\ nextId' = nextId
        /\ store[normalize_feed_url(op'.url)].id = 0 => ret' = RetNone]_vars

C1_Witness ==
    /\ op.name = "get_podcast"
    /\ op.url = "feed://a"
    /\ store["http://a"].id = 0
    /\ store["http://b"].id # 0
    /\ ret = RetNone

C3_RenamePersisted ==
    [][\A s \in 1..MaxHeld :
        (/\ op'.name = "rename" /\ op'.self = s /\ ret'.kind = "None"
         /\ store[podcasts[s].url].id = podcasts[s]._podcast) =>
            LET p == podcasts'[s]
                l == get_podcasts(store').ret.val
            IN /\ p.url = podcasts[s].url
               /\ p._podcast = podcasts[s]._podcast
               /\ \E i \in 1..Len(l) :
                    /\ l[i].url = p.url
                    /\ l[i].title = p.title
                    /\ l[i].title = StripTitle(op'.title)
               /\ \A u \in NormUrls : store'[u].id = store[u].id]_vars

C3_Witness ==
    /\ op.name = "rename"
    /\ ret.kind = "None"
    /\ podcasts[op.self].title = "X"
    /\ store[podcasts[op.self].url].id = podcasts[op.self]._podcast
    /\ store[podcasts[op.self].url].title = "X"
    /\ \E u \in NormUrls : store[u].id # 0 /\ store[u].title = "F"

\* C4 (as stated): rename sets the custom title, saves the entity and only
\* then refreshes the projection's title, so that the projection's title is
\* the entity's title after the save.
C4_Original ==
    (op.name = "rename" /\ ret.kind = "None") =>
        /\ Before(log, "set_custom_title", "save")
        /\ Before(log, "save", "title")
        /\ \A u \in NormUrls :
            store[u].id = podcasts[op.self]._podcast =>
                podcasts[op.self].title = store[u].title

\* C4 (amended): rename sets the custom title on the entity, then refreshes
\* the projection's title from the entity, and only then saves the entity;
\* when rename returns, the projection's title is the requested title as
\* set_custom_title normalized it, which is also the title the save stored.
C4_RenameRefreshesThenSaves ==
    (op.name = "rename" /\ ret.kind = "None") =>
        /\ log = <<"set_custom_title", "title", "save">>
        /\ podcasts[op.self].title = StripTitle(op.title)
        /\ \A u \in NormUrls :
            store[u].id = podcasts[op.self]._podcast =>
                podcasts[op.self].title = store[u].title

C4_Witness ==
    /\ op.name = "rename"
    /\ op.title = " X"
    /\ ret.kind = "None"
    /\ podcasts[op.self].title = "X"
    /\ \E u \in NormUrls :
        store[u].id = podcasts[op.self]._podcast /\ store[u].title = "X"

\* C5: after delete() on a projection of an existing subscription,
\* get_podcast(url) for its url returns None, and stays so until a
\* create_podcast (only create_podcast makes an unsubscribed url a
\* subscribed one); in delete the downloaded content is removed before the
\* subscription is deleted, so that none of its files is left on disk.
C5_DeleteUnsubscribes ==
    [][/\ \A s \in 1..MaxHeld :
            (/\ op'.name = "delete" /\ op'.self = s /\ ret'.kind = "None"
             /\ store[podcasts[s].url].id = podcasts[s]._podcast) =>
                /\ get_podcast(store', podcasts[s].url).ret = RetNone
                /\ log' = <<"remove_downloaded", "delete">>
                /\ \A f \in files' : f[1] # podcasts[s]._podcast
       /\ \A u \in NormUrls :
            (store[u].id = 0 /\ store'[u].id # 0) => op'.name = "create_podcast"]_vars

C5_Witness ==
    /\ op.name = "delete"
    /\ ret.kind = "None"
    /\ get_podcast(store, podcasts[op.self].url).ret = RetNone
    /\ files = {}
    /\ \E k \in 1..MaxHeld :
        /\ episodes[k].url = podcasts[op.self].url
        /\ episodes[k].is_downloaded

\* At most one of the three flags of an Episode projection is true.
AtMostOne(e) ==
    /\ ~(e.is_new /\ e.is_downloaded)
    /\ ~(e.is_new /\ e.is_deleted)
    /\ ~(e.is_downloaded /\ e.is_deleted)

\* C6: every Episode projection has at most one of is_new, is_downloaded
\* and is_deleted true, and the projections get_episodes constructs have
\* is_new exactly when the episode's state is normal and it is not played,
\* is_downloaded exactly when it is downloaded and is_deleted exactly when
\* it is deleted.
C6_EpisodeFlags ==
    /\ \A k \in 1..MaxHeld : AtMostOne(episodes[k])
    /\ (op.name = "get_episodes" /\ ret.kind = "list") =>
        LET es == get_all_episodes(store, podcasts[op.self]._podcast)
        IN /\ Len(ret.val) = Len(es)
           /\ \A i \in 1..Len(es) :
                /\ AtMostOne(ret.val[i])
                /\ ret.val[i].is_new = (es[i].state = STATE_NORMAL /\ ~es[i].is_played)
                /\ ret.val[i].is_downloaded = (es[i].state = STATE_DOWNLOADED)
                /\ ret.val[i].is_deleted = (es[i].state = STATE_DELETED)

C6_Witness ==
    /\ op.name = "get_episodes"
    /\ ret.kind = "list"
    /\ Len(ret.val) > 0
    /\ ret.val[1].is_downloaded
    /\ ~ret.val[1].is_new
    /\ \E u \in NormUrls :
        /\ store[u].id = ret.val[1]._episode[1]
        /\ store[u].episodes[1].state = STATE_DOWNLOADED
        /\ ~store[u].episodes[1].is_played

\* C7: finish() returns True, the subscription file it leaves holds exactly
\* the podcasts subscribed in the store at the call (each with its url and
\* current title, in store order), and the file is written before the
\* commit.
C7_FinishExports ==
    op.name = "finish" =>
        /\ ret = RetTrue
        /\ {subscription_file[i].url : i \in 1..Len(subscription_file)} = Subscribed(store)
        /\ Len(subscription_file) = Cardinality(Subscribed(store))
        /\ \A i \in 1..Len(subscription_file) :
            subscription_file[i].title = store[subscription_file[i].url].title
        /\ Before(log, "write", "commit")
        /\ ~pending

C7_Witness ==
    /\ op.name = "finish"
    /\ nextId = 3
    /\ Len(subscription_file) = 1
    /\ subscription_file[1].title = "X"
    /\ Subscribed(store) = {"http://b"}

\* C8: a create_podcast whose load with create returns None returns None
\* without raising, and it neither sets a custom title nor saves: the store
\* is as before, with or without a title override.
C8_CreateFails ==
    [][(/\ op'.name = "create_podcast"
        /\ load(store, normalize_feed_url(op'.url), TRUE) = NoEntity) =>
            /\ ret' = RetNone
            /\ store' = store
            /\ nextId' = nextId
            /\ podcasts' = podcasts
            /\ ~Called(log', "set_custom_title")
            /\ ~Called(log', "save")]_vars

C8_Witness ==
    /\ op.name = "create_podcast"
    /\ op.url = "http://bad"
    /\ op.title = "X"
    /\ ret = RetNone
    /\ Subscribed(store) # {}

\* C9: the flags of an Episode projection are fixed at construction: no
\* step other than the script replacing it by a projection of a new
\* get_episodes() call changes a held projection, in particular not
\* download() on it nor the application changing the episode, while the
\* projections of a new get_episodes() call show the episode as it is now.
C9_EpisodeSnapshot ==
    [][/\ op'.name # "get_episodes" => episodes' = episodes
       /\ \A k \in 1..MaxHeld :
            \/ episodes'[k] = episodes[k]
            \/ \E i \in 1..Len(ret'.val) : episodes'[k] = ret'.val[i]
       /\ (op'.name = "get_episodes" /\ ret'.kind = "list") =>
            LET now == get_all_episodes(store', podcasts'[op'.self]._podcast)
            IN \A i \in 1..Len(ret'.val) :
                /\ ret'.val[i].is_downloaded = (now[i].state = STATE_DOWNLOADED)
                /\ ret'.val[i].is_deleted = (now[i].state = STATE_DELETED)
                /\ ret'.val[i].is_new = (now[i].state = STATE_NORMAL /\ ~now[i].is_played)]_vars

C9_Witness ==
    /\ op.name = "download"
    /\ episodes[op.self].is_new
    /\ ~episodes[op.self].is_downloaded
    /\ \E u \in NormUrls :
        /\ store[u].id = episodes[op.self]._episode[1]
        /\ store[u].episodes[episodes[op.self]._episode[2]].state = STATE_DOWNLOADED

\* C10: when delete() returns, the projection's _podcast is None, and every
\* later get_episodes, rename, update or delete on that projection raises
\* and leaves the store, the files and the projection (title and url) as
\* they were.
C10_DeletedProjectionFails ==
    [][\A s \in 1..MaxHeld :
        /\ (op'.name = "delete" /\ op'.self = s /\ ret'.kind = "None") =>
                podcasts'[s]._podcast = 0
        /\ (op'.name \in Methods /\ op'.self = s /\ podcasts[s]._podcast = 0) =>
                /\ ret' = RetRaised
                /\ store' = store
                /\ files' = files
                /\ podcasts'[s] = podcasts[s]]_vars

C10_Witness ==
    /\ op.name = "rename"
    /\ ret = RetRaised
    /\ podcasts[op.self]._podcast = 0
    /\ podcasts[op.self].title = "X"
    /\ store[podcasts[op.self].url].id = 0
====
